---- MODULE Spec2Model ----
(***************************************************************************)
(* Model of pkg/dumper/mysql/mysql.go: the MySQL table writer.             *)
(*                                                                         *)
(* One myDumper (a WriterSession) is shared by the DumpTable calls of the  *)
(* set Calls, which may run concurrently.  Every DumpTable call first goes *)
(* through the sync.Once that evaluates the server's local_infile setting, *)
(* then loops over trunkInsert: one transaction per batch, the batch       *)
(* written by insertIntoTable (a producer goroutine that encodes rows into *)
(* a csv.Writer on top of an io.Pipe, consumed by LOAD DATA LOCAL INFILE). *)
(* insertIntoTableReplace (one replace statement built in memory) has no   *)
(* caller in the package and is modelled as a function called directly.    *)
(* Close may be called at any time.  Every database operation may succeed  *)
(* or fail.                                                                *)
(***************************************************************************)
EXTENDS Integers, Sequences, FiniteSets, TLC

\* ---------------------------------------------------------------- bounds
MaxRows == 2          \* rows a row source yields before it closes its channel
MaxBatch == 2         \* largest configured d.batch
CsvBufCap == 1        \* records that fit in csv.Writer's bufio buffer
MaxTxns == MaxRows + 2 \* transactions one DumpTable call may begin in the model

\* NewDumper (line 90) takes any int64 as the batch size: 0 is one of them.
Batches == 0..MaxBatch

Calls == {1, 2}       \* the DumpTable calls made on the one session
Closers == {1, 2}     \* the Close calls made on it
Nil == "nil"
None == <<0, 0>>      \* no pipe / no handler

VARIABLES
    batch,               \* d.batch
    tname,               \* tname[c]: tableName argument of call c
    nRows,               \* nRows[c]: rows the source of call c yields in all
    srcCloses,           \* srcCloses[c]: the source closes rowChan after them
    unhandled,           \* unhandled[c]: row of call c holding a value whose
                         \* runtime type no case of the switch names (0: none)
    nextRow,             \* nextRow[c]: next row rowChan of call c delivers
    once,                \* d.setGlobalInline: "idle", "running", "done"
    disableGlobalInline, \* d.disableGlobalInline
    localInfile,         \* the server's @@GLOBAL.local_infile
    toggle,              \* what the session did to the setting so far
    pc,                  \* pc[c]: position of call c
    err,                 \* err[c]: DumpTable's local err
    inserted,            \* inserted[c]: DumpTable's local inserted
    txns,                \* txns[c]: the batches (transactions) call c began
    reg,                 \* the driver's reader-handler registry, by table name
    bound,               \* bound[c]: pipe the running LOAD DATA of c reads
    conn,                \* "open" or "closed" (d.conn)
    cpc,                 \* cpc[i]: position of the Close() call i
    closeErr,            \* closeErr[i]: result of the Close() call i
    closeLog,            \* closeLog[i]: what the Close() call i did
    crashed,             \* the process was terminated by a panic
    field,               \* a field value handed to the two encoders
    outStream,           \* what the streaming writer's switch made of it
    outReplace           \* what the replace writer's switch made of it

vars == <<batch, tname, nRows, srcCloses, nextRow, once,
          disableGlobalInline, localInfile, toggle, pc, err, inserted, txns,
          reg, bound, conn, cpc, closeErr, closeLog, crashed, unhandled, field,
          outStream, outReplace>>

config == <<batch, tname, nRows, srcCloses, unhandled>>
encVars == <<field, outStream, outReplace>>
sessionVars == <<once, disableGlobalInline, localInfile, toggle>>
closeVars == <<conn, cpc, closeErr, closeLog>>

Names == {"t1", "t2"}

\* ------------------------------------------------------------------ state
\* What a Close call has done: whether it issued SET GLOBAL local_infile=0,
\* whether the session had enabled the setting when it tested the flag,
\* whether the function of the sync.Once was running then, and which of its
\* two steps failed.
NoCloseLog ==
    [reset |-> FALSE, enabledBefore |-> FALSE, duringOnce |-> FALSE,
     setFailed |-> FALSE, closeFailed |-> FALSE]

\* Results an operation on d.conn can have: after d.conn.Close() every
\* operation on the sql.DB fails.
ConnResults == IF conn = "open" THEN BOOLEAN ELSE {FALSE}

\* A batch as trunkInsert sees it right after d.conn.Begin() succeeded.
NewTxn ==
    [st |-> "open",        \* open, committed, commitfailed, rolledback, rollbackfailed
     ends |-> 0,           \* Commit/Rollback calls made on the transaction
     input |-> <<>>,       \* rows the bulk / replace statement has ingested
     taken |-> <<>>,       \* rows this batch's writer received from rowChan
     reported |-> -1,      \* insertedRows returned by the writer (-1: none yet)
     failedAt |-> "none",  \* step of the batch that failed
     fk |-> FALSE,         \* SET foreign_key_checks = 0 succeeded on it
     stmt |-> FALSE,       \* the bulk / replace statement was sent
     prod |-> "none",      \* position of the producer goroutine
     cnt |-> 0,            \* insertIntoTable's local inserted
     buf |-> <<>>,         \* records buffered in the csv.Writer
     pend |-> 0,           \* record whose w.Write is blocked flushing
     pipe |-> <<>>,        \* data of the PipeWriter.Write in progress
     wclosed |-> FALSE,    \* rowWriter.Close() was called
     rclosed |-> FALSE,    \* rowReader was closed by the driver
     werr |-> FALSE,       \* a write to the pipe has failed
     panic |-> FALSE]      \* the producer goroutine is panicking

Cur(c) == Len(txns[c])
CurTxn(c) == txns[c][Cur(c)]

\* line 132: for inserted == batch
LoopContinuesMut(ins, b) == ins > 0
LoopContinues(ins, b) == ins = b

\* lines 250 and 318: if inserted >= batch { break }
CapReached(cnt, b) == cnt >= b

\* sync.Once.Do (line 110): the first caller runs the function, a caller that
\* arrives while it runs waits for it, a caller that arrives later skips it.
OnceRunsMut(o) == o # "done"
OnceRuns(o) == o = "idle"

OncePasses(o) == o = "done"

\* lines 134-136: what DumpTable does when trunkInsert returned an error
AfterBatchErrRetry == "begin"
AfterBatchErr == "panic"

\* lines 149-157: what trunkInsert does when insertIntoTable returned an error
OnInsertErrCommit == "commit"
OnInsertErrSkip == AfterBatchErr
OnInsertErr == "rollback"

\* line 174: if d.disableGlobalInline
CloseDisables(flag) == flag

SetTxn(c, r) == [txns EXCEPT ![c][Cur(c)] = r]

\* ---------------------------------------------------------- field values
\* A Go string is its bytes.  A field of a database.Row holds nil, a string,
\* a []uint8 or a value of some other runtime type.
MaxLen == 2           \* longest string / byte slice a field holds
Bytes == {0, 44, 78}  \* NUL, ',' and 'N'
Texts == UNION {[1..n -> Bytes] : n \in 0..MaxLen}
OtherKinds == {"int64", "float64", "bool", "time"}
FieldValues ==
    {[kind |-> "nil", data |-> <<>>]}
      \cup {[kind |-> k, data |-> d] : k \in {"string", "bytes"}, d \in Texts}
      \cup {[kind |-> k, data |-> <<>>] : k \in OtherKinds}

Null == <<78, 85, 76, 76>>   \* const null = "NULL"
Panics == <<256>>            \* the evaluation panicked
NotRun == <<257>>            \* the encoder has not run

\* the type assertion row[col].(string)
AssertString(v) == IF v.kind = "string" THEN v.data ELSE Panics

\* the conversion string(b) of a []uint8: a string of the same bytes
BytesToString(b) == [i \in 1..Len(b) |-> b[i]]

\* lines 232-242: the switch of the streaming writer's goroutine
EncodeStream(v) ==
    CASE v.kind = "nil" -> Null
      [] v.kind = "string" -> AssertString(v)
      [] v.kind = "bytes" -> BytesToString(v.data)
      [] OTHER -> AssertString(v)

\* lines 300-310: the switch of the replace writer's loop
EncodeReplaceMut(v) ==
    IF v.kind = "nil" THEN <<>>
    ELSE IF v.kind = "string" THEN AssertString(v)
    ELSE IF v.kind = "bytes" THEN BytesToString(v.data)
    ELSE AssertString(v)
EncodeReplace(v) ==
    IF v.kind = "nil" THEN Null
    ELSE IF v.kind = "string" THEN AssertString(v)
    ELSE IF v.kind = "bytes" THEN BytesToString(v.data)
    ELSE AssertString(v)

\* The field of row r of call c: a string, or a value of an unhandled type.
RowField(c, r) ==
    IF r = unhandled[c] THEN [kind |-> "int64", data |-> <<>>]
    ELSE [kind |-> "string", data |-> <<78>>]

\* ------------------------------------------------------------------ Init
\* Every row holds values of the types the switch names, and no field value
\* is under evaluation by the encoders.
InitValues ==
    /\ unhandled = [c \in Calls |-> 0]
    /\ field = [kind |-> "nil", data |-> <<>>]
    /\ outStream = NotRun
    /\ outReplace = NotRun

\* The source of the first call yields up to MaxRows rows; the second call,
\* which runs concurrently with it, writes a table that has no row.
InitCommon ==
    /\ batch \in Batches
    /\ nRows \in {f \in [Calls -> 0..MaxRows] : f[2] = 0}
    /\ nextRow = [c \in Calls |-> 1]
    /\ once = "idle"
    /\ disableGlobalInline = FALSE
    /\ localInfile \in BOOLEAN
    /\ toggle = [reads |-> 0, sets |-> 0, resets |-> 0, foundDisabled |-> FALSE,
                 enabled |-> FALSE, failed |-> FALSE]
    /\ pc = [c \in Calls |-> "start"]
    /\ err = [c \in Calls |-> Nil]
    /\ inserted = [c \in Calls |-> 0]
    /\ txns = [c \in Calls |-> <<>>]
    /\ reg = [n \in Names |-> None]
    /\ bound = [c \in Calls |-> None]
    /\ conn = "open"
    /\ cpc = [i \in Closers |-> "idle"]
    /\ closeErr = [i \in Closers |-> [msg |-> "none", wraps |-> {}]]
    /\ closeLog = [i \in Closers |-> NoCloseLog]
    /\ crashed = FALSE

\* Concurrently active table writes use distinct table names and every row
\* source closes its channel when it is exhausted.
Init ==
    /\ InitCommon
    /\ InitValues
    /\ tname = [c \in Calls |-> IF c = 1 THEN "t1" ELSE "t2"]
    /\ srcCloses = [c \in Calls |-> TRUE]

\* --------------------------------------------------- DumpTable, lines 108-140
\* line 110: d.setGlobalInline.Do(...)
OnceEnter(c) ==
    /\ ~crashed
    /\ pc[c] = "start"
    /\ \/ /\ OnceRuns(once)
          /\ once' = "running"
          /\ pc' = [pc EXCEPT ![c] = "onceRead"]
       \/ /\ OncePasses(once)
          /\ once' = once
          /\ pc' = [pc EXCEPT ![c] = "afterOnce"]
    /\ UNCHANGED <<config, encVars, nextRow, disableGlobalInline, localInfile, toggle,
                   err, inserted, txns, reg, bound, closeVars, crashed>>

\* lines 111-119: SELECT @@GLOBAL.local_infile and Scan
OnceRead(c) ==
    /\ ~crashed
    /\ pc[c] = "onceRead"
    /\ \E ok \in ConnResults :
         IF ~ok
         THEN /\ err' = [err EXCEPT ![c] = "read"]
              /\ toggle' = [toggle EXCEPT !.reads = @ + 1, !.failed = TRUE]
              /\ once' = "done"
              /\ pc' = [pc EXCEPT ![c] = "afterOnce"]
         ELSE IF localInfile
         THEN /\ err' = err
              /\ toggle' = [toggle EXCEPT !.reads = @ + 1]
              /\ once' = "done"
              /\ pc' = [pc EXCEPT ![c] = "afterOnce"]
         ELSE /\ err' = err
              /\ toggle' = [toggle EXCEPT !.reads = @ + 1, !.foundDisabled = TRUE]
              /\ once' = once
              /\ pc' = [pc EXCEPT ![c] = "onceSet"]
    /\ UNCHANGED <<config, encVars, nextRow, disableGlobalInline, localInfile,
                   inserted, txns, reg, bound, closeVars, crashed>>

\* lines 121-123: d.conn.Exec("SET GLOBAL local_infile=1")
OnceSet(c) ==
    /\ ~crashed
    /\ pc[c] = "onceSet"
    /\ \E ok \in ConnResults :
         IF ok
         THEN /\ localInfile' = TRUE
              /\ toggle' = [toggle EXCEPT !.sets = @ + 1, !.enabled = TRUE]
              /\ err' = err
              /\ once' = once
              /\ pc' = [pc EXCEPT ![c] = "onceRecord"]
         ELSE /\ localInfile' = localInfile
              /\ toggle' = [toggle EXCEPT !.sets = @ + 1, !.failed = TRUE]
              /\ err' = [err EXCEPT ![c] = "set"]
              /\ once' = "done"
              /\ pc' = [pc EXCEPT ![c] = "afterOnce"]
    /\ UNCHANGED <<config, encVars, nextRow, disableGlobalInline, inserted, txns,
                   reg, bound, closeVars, crashed>>

\* lines 124-125: d.disableGlobalInline = true, a plain field that Close
\* reads without synchronisation, and the end of the function run by Do
OnceRecord(c) ==
    /\ ~crashed
    /\ pc[c] = "onceRecord"
    /\ disableGlobalInline' = TRUE
    /\ once' = "done"
    /\ pc' = [pc EXCEPT ![c] = "afterOnce"]
    /\ UNCHANGED <<config, encVars, nextRow, localInfile, toggle, err, inserted,
                   txns, reg, bound, closeVars, crashed>>

\* lines 126-131
AfterOnce(c) ==
    /\ ~crashed
    /\ pc[c] = "afterOnce"
    /\ IF err[c] # Nil
       THEN /\ pc' = [pc EXCEPT ![c] = "returned"]
            /\ inserted' = inserted
       ELSE /\ pc' = [pc EXCEPT ![c] = "loop"]
            /\ inserted' = [inserted EXCEPT ![c] = batch]
    /\ UNCHANGED <<config, encVars, nextRow, sessionVars, err, txns, reg, bound,
                   closeVars, crashed>>

\* lines 132 and 139
LoopTest(c) ==
    /\ ~crashed
    /\ pc[c] = "loop"
    /\ pc' = [pc EXCEPT ![c] = IF LoopContinues(inserted[c], batch)
                                THEN "begin" ELSE "returned"]
    /\ UNCHANGED <<config, encVars, nextRow, sessionVars, err, inserted, txns, reg,
                   bound, closeVars, crashed>>

\* lines 134-136: log.Panic(err)
Panic(c) ==
    /\ ~crashed
    /\ pc[c] = "panic"
    /\ crashed' = TRUE
    /\ pc' = [pc EXCEPT ![c] = "panicked"]
    /\ UNCHANGED <<config, encVars, nextRow, sessionVars, err, inserted, txns, reg,
                   bound, closeVars>>

\* ------------------------------------------------- trunkInsert, lines 142-169
\* lines 143-146: d.conn.Begin()
Begin(c) ==
    /\ ~crashed
    /\ pc[c] = "begin"
    /\ Cur(c) < MaxTxns
    /\ \E ok \in ConnResults :
         IF ok
         THEN /\ txns' = [txns EXCEPT ![c] = Append(@, NewTxn)]
              /\ pc' = [pc EXCEPT ![c] = "columns"]
              /\ err' = err
              /\ inserted' = inserted
         ELSE /\ txns' = txns
              /\ pc' = [pc EXCEPT ![c] = AfterBatchErr]
              /\ err' = [err EXCEPT ![c] = "begin"]
              /\ inserted' = [inserted EXCEPT ![c] = 0]
    /\ UNCHANGED <<config, encVars, nextRow, sessionVars, reg, bound, closeVars,
                   crashed>>

\* lines 149-157: the deferred txn.Rollback() and the error return; line 133
\* assigns the returned 0 to DumpTable's inserted
Rollback(c) ==
    /\ ~crashed
    /\ pc[c] = "rollback"
    /\ \E ok \in BOOLEAN :
         txns' = SetTxn(c, [CurTxn(c) EXCEPT
                     !.st = IF ok THEN "rolledback" ELSE "rollbackfailed",
                     !.ends = @ + 1])
    /\ err' = [err EXCEPT ![c] = CurTxn(c).failedAt]
    /\ inserted' = [inserted EXCEPT ![c] = 0]
    /\ pc' = [pc EXCEPT ![c] = AfterBatchErr]
    /\ UNCHANGED <<config, encVars, nextRow, sessionVars, reg, bound, closeVars,
                   crashed>>

\* lines 164-168: txn.Commit() and the return of insertedRows
Commit(c) ==
    /\ ~crashed
    /\ pc[c] = "commit"
    /\ \E ok \in BOOLEAN :
         IF ok
         THEN /\ txns' = SetTxn(c, [CurTxn(c) EXCEPT !.st = "committed",
                                                      !.ends = @ + 1])
              /\ inserted' = [inserted EXCEPT ![c] = CurTxn(c).reported]
              /\ pc' = [pc EXCEPT ![c] = "loop"]
              /\ err' = err
         ELSE /\ txns' = SetTxn(c, [CurTxn(c) EXCEPT !.st = "commitfailed",
                                                      !.ends = @ + 1])
              /\ inserted' = [inserted EXCEPT ![c] = 0]
              /\ pc' = [pc EXCEPT ![c] = AfterBatchErr]
              /\ err' = [err EXCEPT ![c] = "commit"]
    /\ UNCHANGED <<config, encVars, nextRow, sessionVars, reg, bound, closeVars,
                   crashed>>

\* ---------------------------------------- insertIntoTable, lines 194-269
\* lines 206-207 and 257-258: the key of the handler, and the file name
\* 'Reader::<key>' of the statement, is the table name
HandlerKeyMut(c) == "t1"
HandlerKey(c) == tname[c]

\* line 258: defer mysql.DeregisterReaderHandler(tableName)
DeregisterMut(c) == reg
Deregister(c) == [reg EXCEPT ![HandlerKey(c)] = None]

\* line 268: return inserted.  The producer has finished when its pipe
\* delivered the end of the stream; a read made while it still runs is
\* unsynchronised and may see any value the counter has had.
ReturnedCounts(t) ==
    IF t.prod \in {"done", "dying"} THEN {t.cnt} ELSE 0..t.cnt

\* line 148 of trunkInsert calls insertIntoTable; lines 195-198:
\* d.reader.GetColumns, and lines 215-254: the pipe and the start of the
\* producer goroutine.
GetColumns(c) ==
    /\ ~crashed
    /\ pc[c] = "columns"
    /\ \E ok \in BOOLEAN :
         IF ~ok
         THEN /\ txns' = SetTxn(c, [CurTxn(c) EXCEPT !.failedAt = "columns"])
              /\ pc' = [pc EXCEPT ![c] = OnInsertErr]
         ELSE /\ txns' = SetTxn(c, [CurTxn(c) EXCEPT !.prod = "recv"])
              /\ pc' = [pc EXCEPT ![c] = "register"]
    /\ UNCHANGED <<config, encVars, nextRow, sessionVars, err, inserted, reg, bound,
                   closeVars, crashed>>

\* line 257: mysql.RegisterReaderHandler(tableName, ...)
Register(c) ==
    /\ ~crashed
    /\ pc[c] = "register"
    /\ reg' = [reg EXCEPT ![HandlerKey(c)] = <<c, Cur(c)>>]
    /\ pc' = [pc EXCEPT ![c] = "fk"]
    /\ UNCHANGED <<config, encVars, nextRow, sessionVars, err, inserted, txns, bound,
                   closeVars, crashed>>

\* lines 260 and 328: if _, err := txn.Exec(...); err != nil
FkFailedMut(ok) == FALSE
FkFailed(ok) == ~ok

\* lines 260-262: txn.Exec("SET foreign_key_checks = 0;")
FkExec(c) ==
    /\ ~crashed
    /\ pc[c] = "fk"
    /\ \E ok \in BOOLEAN :
         IF FkFailed(ok)
         THEN /\ txns' = SetTxn(c, [CurTxn(c) EXCEPT !.failedAt = "fk"])
              /\ pc' = [pc EXCEPT ![c] = OnInsertErr]
              /\ reg' = Deregister(c)
         ELSE /\ txns' = SetTxn(c, [CurTxn(c) EXCEPT !.fk = ok])
              /\ pc' = [pc EXCEPT ![c] = "exec"]
              /\ reg' = reg
    /\ UNCHANGED <<config, encVars, nextRow, sessionVars, err, inserted, bound,
                   closeVars, crashed>>

\* line 264, txn.Exec(query), first part: the statement is sent; the server
\* rejects it, or asks for the file 'Reader::<tableName>' and the driver
\* looks the handler up in its registry.
ExecSend(c) ==
    /\ ~crashed
    /\ pc[c] = "exec"
    /\ \E ok \in BOOLEAN :
         IF ok /\ reg[HandlerKey(c)] # None
         THEN /\ txns' = SetTxn(c, [CurTxn(c) EXCEPT !.stmt = TRUE])
              /\ bound' = [bound EXCEPT ![c] = reg[HandlerKey(c)]]
              /\ pc' = [pc EXCEPT ![c] = "reading"]
              /\ reg' = reg
         ELSE /\ txns' = SetTxn(c, [CurTxn(c) EXCEPT !.stmt = TRUE,
                                                      !.failedAt = "stmt"])
              /\ bound' = bound
              /\ pc' = [pc EXCEPT ![c] = OnInsertErr]
              /\ reg' = Deregister(c)
    /\ UNCHANGED <<config, encVars, nextRow, sessionVars, err, inserted, closeVars,
                   crashed>>

\* line 264, second part: the driver reads what the pipe's writer is
\* writing and sends it to the server.
ExecRead(c) ==
    /\ ~crashed
    /\ pc[c] = "reading"
    /\ LET p == bound[c]
           src == txns[p[1]][p[2]]
       IN /\ src.pipe # <<>>
          /\ ~src.rclosed
          /\ txns' = [txns EXCEPT ![p[1]][p[2]].pipe = <<>>,
                                  ![c][Cur(c)].input = @ \o src.pipe]
    /\ UNCHANGED <<config, encVars, nextRow, sessionVars, pc, err, inserted, reg, bound,
                   closeVars, crashed>>

\* line 264, third part: the driver's Read of the pipe returns io.EOF (the
\* writer was closed and nothing is left to read); the driver sends the
\* terminating packet and waits for the server's answer.
ExecEof(c) ==
    /\ ~crashed
    /\ pc[c] = "reading"
    /\ LET p == bound[c]
           src == txns[p[1]][p[2]]
       IN /\ src.pipe = <<>>
          /\ src.wclosed
          /\ ~src.rclosed
    /\ pc' = [pc EXCEPT ![c] = "answer"]
    /\ UNCHANGED <<config, encVars, nextRow, sessionVars, err, inserted, txns,
                   reg, bound, closeVars, crashed>>

\* line 264: the sending of the file fails (the connection breaks, or the
\* reader has been closed and Read returns an error); the driver ends the
\* transfer and waits for the server's answer.
ExecAbort(c) ==
    /\ ~crashed
    /\ pc[c] = "reading"
    /\ txns' = SetTxn(c, [CurTxn(c) EXCEPT !.failedAt = "stmt"])
    /\ pc' = [pc EXCEPT ![c] = "answer"]
    /\ UNCHANGED <<config, encVars, nextRow, sessionVars, err, inserted, reg,
                   bound, closeVars, crashed>>

\* line 264, last part, and lines 265-268: the server's answer has come (or
\* the transfer had failed), the driver closes the reader it was given,
\* Exec returns, the handler is deregistered and insertIntoTable returns
\* the error or the counter.
ExecDone(c) ==
    /\ ~crashed
    /\ pc[c] = "answer"
    /\ LET p == bound[c]
       IN \E ok \in (IF CurTxn(c).failedAt = "stmt" THEN {FALSE} ELSE BOOLEAN) :
            IF ok
            THEN /\ \E n \in ReturnedCounts(CurTxn(c)) :
                       txns' = [txns EXCEPT ![p[1]][p[2]].rclosed = TRUE,
                                            ![c][Cur(c)].reported = n]
                 /\ pc' = [pc EXCEPT ![c] = "commit"]
            ELSE /\ txns' = [txns EXCEPT ![p[1]][p[2]].rclosed = TRUE,
                                         ![c][Cur(c)].failedAt = "stmt"]
                 /\ pc' = [pc EXCEPT ![c] = OnInsertErr]
    /\ reg' = Deregister(c)
    /\ bound' = [bound EXCEPT ![c] = None]
    /\ UNCHANGED <<config, encVars, nextRow, sessionVars, err, inserted,
                   closeVars, crashed>>

\* ----------------------------- the producer goroutine, lines 217-254
\* rowChan of call c can deliver a row / reports that it is closed
ChanHasRow(c) == nextRow[c] <= nRows[c]
ChanClosedMut(c) == nextRow[c] > nRows[c]
ChanClosed(c) == nextRow[c] > nRows[c] /\ srcCloses[c]

\* position of the producer after atomic.AddInt64 made the counter n
AfterCount(n) == IF CapReached(n, batch) THEN "final" ELSE "recv"

\* lines 245-247: position of the producer after w.Write returned an error:
\* the error is logged and the loop goes on with the count
AfterWriteErr(n) == AfterCount(n)

\* csv.Writer.Write: the record fits in the bufio buffer
BufHasRoomMut(buf) == TRUE
BufHasRoom(buf) == Len(buf) < CsvBufCap

\* PipeWriter.Write returns: the reader has taken the data, or it was closed
PipeWriteDone(t) == t.pipe = <<>> \/ t.rclosed

\* lines 224-252: receive a row, encode it, w.Write it and count it.  The
\* csv.Writer buffers the record; when its buffer is full it first writes
\* the buffer to the pipe, which blocks until the reader has taken it.  Once
\* a write to the pipe has failed every later w.Write fails at once.
ProdRecv(c, k) ==
    /\ ~crashed
    /\ k \in 1..Len(txns[c])
    /\ txns[c][k].prod = "recv"
    /\ LET t == txns[c][k]
           r == nextRow[c]
       IN \/ /\ ChanHasRow(c)
             /\ nextRow' = [nextRow EXCEPT ![c] = r + 1]
             /\ txns' = [txns EXCEPT ![c][k] =
                    IF EncodeStream(RowField(c, r)) = Panics
                    THEN [t EXCEPT !.taken = Append(@, r),
                                   !.panic = TRUE,
                                   !.prod = "final"]
                    ELSE IF t.werr
                    THEN [t EXCEPT !.taken = Append(@, r),
                                   !.cnt = @ + 1,
                                   !.prod = AfterWriteErr(t.cnt + 1)]
                    ELSE IF BufHasRoom(t.buf)
                    THEN [t EXCEPT !.taken = Append(@, r),
                                   !.buf = Append(@, r),
                                   !.cnt = @ + 1,
                                   !.prod = AfterCount(t.cnt + 1)]
                    ELSE [t EXCEPT !.taken = Append(@, r),
                                   !.pipe = t.buf,
                                   !.buf = <<>>,
                                   !.pend = r,
                                   !.prod = "flush"]]
          \/ /\ ChanClosed(c)
             /\ nextRow' = nextRow
             /\ txns' = [txns EXCEPT ![c][k].prod = "final"]
    /\ UNCHANGED <<config, encVars, sessionVars, pc, err, inserted, reg, bound,
                   closeVars, crashed>>

\* lines 245-252: the blocked w.Write returns.  When the reader has taken
\* the flushed buffer the record is buffered; when the reader was closed the
\* write fails, the error is logged and the record is lost.  The record is
\* counted in both cases.
ProdFlushed(c, k) ==
    /\ ~crashed
    /\ k \in 1..Len(txns[c])
    /\ txns[c][k].prod = "flush"
    /\ PipeWriteDone(txns[c][k])
    /\ LET t == txns[c][k]
       IN txns' = [txns EXCEPT ![c][k] =
                      IF t.pipe = <<>>
                      THEN [t EXCEPT !.buf = <<t.pend>>,
                                     !.pend = 0,
                                     !.cnt = @ + 1,
                                     !.prod = AfterCount(t.cnt + 1)]
                      ELSE [t EXCEPT !.pipe = <<>>,
                                     !.pend = 0,
                                     !.werr = TRUE,
                                     !.cnt = @ + 1,
                                     !.prod = AfterWriteErr(t.cnt + 1)]]
    /\ UNCHANGED <<config, encVars, nextRow, sessionVars, pc, err, inserted, reg, bound,
                   closeVars, crashed>>

\* line 221: defer w.Flush(), run when the loop is left
ProdFinal(c, k) ==
    /\ ~crashed
    /\ k \in 1..Len(txns[c])
    /\ txns[c][k].prod = "final"
    /\ LET t == txns[c][k]
       IN txns' = [txns EXCEPT ![c][k] =
                      IF t.werr
                      THEN [t EXCEPT !.prod = "close"]
                      ELSE [t EXCEPT !.pipe = t.buf, !.buf = <<>>,
                                     !.prod = "close"]]
    /\ UNCHANGED <<config, encVars, nextRow, sessionVars, pc, err, inserted, reg, bound,
                   closeVars, crashed>>

\* line 218: defer writer.Close(), run after the flush returned
ProdClose(c, k) ==
    /\ ~crashed
    /\ k \in 1..Len(txns[c])
    /\ txns[c][k].prod = "close"
    /\ PipeWriteDone(txns[c][k])
    /\ txns' = [txns EXCEPT ![c][k].wclosed = TRUE, ![c][k].pipe = <<>>,
                            ![c][k].prod = IF txns[c][k].panic
                                           THEN "dying" ELSE "done"]
    /\ UNCHANGED <<config, encVars, nextRow, sessionVars, pc, err, inserted, reg, bound,
                   closeVars, crashed>>

\* line 241: the panic of the type assertion, after the deferred calls of
\* the goroutine have run, terminates the process.
ProdPanic(c, k) ==
    /\ ~crashed
    /\ k \in 1..Len(txns[c])
    /\ txns[c][k].prod = "dying"
    /\ crashed' = TRUE
    /\ txns' = [txns EXCEPT ![c][k].prod = "panicked"]
    /\ UNCHANGED <<config, encVars, nextRow, sessionVars, pc, err, inserted,
                   reg, bound, closeVars>>

\* --------------------------------- insertIntoTableReplace, lines 271-337
\* No function of the package calls insertIntoTableReplace.  It is modelled
\* as called directly, with an open transaction as its txn argument; the
\* call ends at "rreturned" with the count or the error it returns.

\* lines 272-275: d.reader.GetColumns
ReplaceColumns(c) ==
    /\ ~crashed
    /\ pc[c] = "rcolumns"
    /\ \E ok \in BOOLEAN :
         IF ok
         THEN /\ txns' = txns
              /\ pc' = [pc EXCEPT ![c] = "rrecv"]
         ELSE /\ txns' = SetTxn(c, [CurTxn(c) EXCEPT !.failedAt = "columns"])
              /\ pc' = [pc EXCEPT ![c] = "rreturned"]
    /\ UNCHANGED <<config, encVars, nextRow, sessionVars, err, inserted, reg,
                   bound, closeVars, crashed>>

\* lines 323-325: position after the receive loop was left with n rows
AfterReplaceLoopMut(n) == "rfk"
AfterReplaceLoop(n) == IF n = 0 THEN "rreturned" ELSE "rfk"

\* lines 291-325: one iteration of the receive loop; when the loop is left
\* with no row, the function returns 0 and no error.  The panic of the type
\* assertion at line 309 terminates the process inside the call.
ReplaceRecv(c) ==
    /\ ~crashed
    /\ pc[c] = "rrecv"
    /\ LET t == CurTxn(c)
           r == nextRow[c]
           left == AfterReplaceLoop(t.cnt)
       IN \/ /\ ChanHasRow(c)
             /\ nextRow' = [nextRow EXCEPT ![c] = r + 1]
             /\ IF EncodeReplace(RowField(c, r)) = Panics
                THEN /\ txns' = SetTxn(c, [t EXCEPT !.taken = Append(@, r)])
                     /\ pc' = [pc EXCEPT ![c] = "died"]
                     /\ crashed' = TRUE
                ELSE /\ txns' = SetTxn(c, [t EXCEPT !.taken = Append(@, r),
                                                    !.cnt = @ + 1])
                     /\ pc' = [pc EXCEPT ![c] =
                                  IF CapReached(t.cnt + 1, batch)
                                  THEN "rfk" ELSE "rrecv"]
                     /\ crashed' = crashed
          \/ /\ ChanClosed(c)
             /\ nextRow' = nextRow
             /\ txns' = SetTxn(c, [t EXCEPT !.reported =
                                      IF left = "rreturned" THEN 0 ELSE @])
             /\ pc' = [pc EXCEPT ![c] = left]
             /\ crashed' = crashed
    /\ UNCHANGED <<config, encVars, sessionVars, err, inserted, reg, bound,
                   closeVars>>

\* lines 328-330: txn.Exec("SET foreign_key_checks = 0;")
ReplaceFk(c) ==
    /\ ~crashed
    /\ pc[c] = "rfk"
    /\ \E ok \in BOOLEAN :
         IF FkFailed(ok)
         THEN /\ txns' = SetTxn(c, [CurTxn(c) EXCEPT !.failedAt = "fk"])
              /\ pc' = [pc EXCEPT ![c] = "rreturned"]
         ELSE /\ txns' = SetTxn(c, [CurTxn(c) EXCEPT !.fk = ok])
              /\ pc' = [pc EXCEPT ![c] = "rexec"]
    /\ UNCHANGED <<config, encVars, nextRow, sessionVars, err, inserted, reg,
                   bound, closeVars, crashed>>

\* lines 332-336: txn.Exec(buf.String()) and the return of inserted
ReplaceExec(c) ==
    /\ ~crashed
    /\ pc[c] = "rexec"
    /\ \E ok \in BOOLEAN :
         IF ok
         THEN txns' = SetTxn(c, [CurTxn(c) EXCEPT !.stmt = TRUE,
                                     !.input = CurTxn(c).taken,
                                     !.reported = CurTxn(c).cnt])
         ELSE txns' = SetTxn(c, [CurTxn(c) EXCEPT !.stmt = TRUE,
                                                   !.failedAt = "stmt"])
    /\ pc' = [pc EXCEPT ![c] = "rreturned"]
    /\ UNCHANGED <<config, encVars, nextRow, sessionVars, err, inserted, reg,
                   bound, closeVars, crashed>>

ReplaceStep(c) ==
    \/ ReplaceColumns(c) \/ ReplaceRecv(c) \/ ReplaceFk(c) \/ ReplaceExec(c)

\* --------------------------------------------------- Close, lines 172-192
\* The errors of the two steps of Close: errGlobalInline (line 175) and err
\* (line 178).
ErrInline == "errGlobalInline"
ErrClose == "errClose"

\* lines 179-191: the error Close returns, from the two steps' outcomes: its
\* message and the errors it wraps with %w (the errors a caller can get back
\* from it).  Line 181 names both steps in the message and wraps
\* errGlobalInline only.
CloseResult(okSet, okClose) ==
    IF ~okClose
    THEN IF ~okSet
         THEN [msg |-> "close and inline", wraps |-> {ErrInline}]
         ELSE [msg |-> "close", wraps |-> {ErrClose}]
    ELSE IF ~okSet
         THEN [msg |-> "inline", wraps |-> {ErrInline}]
         ELSE [msg |-> Nil, wraps |-> {}]

\* lines 173-176: the test of d.disableGlobalInline and
\* d.conn.Exec("SET GLOBAL local_infile=0")
CloseSet(i) ==
    /\ ~crashed
    /\ cpc[i] = "idle"
    /\ IF CloseDisables(disableGlobalInline)
       THEN \E ok \in ConnResults :
              /\ toggle' = [toggle EXCEPT !.resets = @ + 1]
              /\ localInfile' = IF ok THEN FALSE ELSE localInfile
              /\ closeLog' = [closeLog EXCEPT ![i] =
                     [reset |-> TRUE, enabledBefore |-> toggle.enabled,
                      duringOnce |-> once = "running",
                      setFailed |-> ~ok, closeFailed |-> FALSE]]
       ELSE /\ UNCHANGED <<toggle, localInfile>>
            /\ closeLog' = [closeLog EXCEPT ![i] =
                   [reset |-> FALSE, enabledBefore |-> toggle.enabled,
                    duringOnce |-> once = "running",
                    setFailed |-> FALSE, closeFailed |-> FALSE]]
    /\ cpc' = [cpc EXCEPT ![i] = "conn"]
    /\ UNCHANGED <<config, encVars, nextRow, once, disableGlobalInline, pc, err,
                   inserted, txns, reg, bound, conn, closeErr, crashed>>

\* lines 178-191: d.conn.Close(), which returns nil on a closed sql.DB, and
\* the error Close returns
CloseConn(i) ==
    /\ ~crashed
    /\ cpc[i] = "conn"
    /\ \E ok \in (IF conn = "open" THEN BOOLEAN ELSE {TRUE}) :
         /\ closeErr' = [closeErr EXCEPT ![i] =
                            CloseResult(~closeLog[i].setFailed, ok)]
         /\ closeLog' = [closeLog EXCEPT ![i].closeFailed = ~ok]
    /\ conn' = "closed"
    /\ cpc' = [cpc EXCEPT ![i] = "done"]
    /\ UNCHANGED <<config, encVars, nextRow, sessionVars, pc, err, inserted,
                   txns, reg, bound, crashed>>

CloseStep(i) == CloseSet(i) \/ CloseConn(i)

\* ------------------------------------------------------------------ Next
CallStep(c) ==
    \/ OnceEnter(c) \/ OnceRead(c) \/ OnceSet(c) \/ OnceRecord(c)
    \/ AfterOnce(c)
    \/ LoopTest(c) \/ Panic(c)
    \/ Begin(c) \/ Rollback(c) \/ Commit(c)
    \/ GetColumns(c) \/ Register(c) \/ FkExec(c)
    \/ ExecSend(c) \/ ExecRead(c) \/ ExecEof(c) \/ ExecAbort(c)
    \/ ExecDone(c)

ProducerStep(c, k) ==
    \/ ProdRecv(c, k) \/ ProdFlushed(c, k) \/ ProdFinal(c, k) \/ ProdClose(c, k)

Next ==
    \/ \E c \in Calls : CallStep(c)
    \/ \E c \in Calls : \E k \in 1..MaxTxns : ProducerStep(c, k)

Spec == Init /\ [][Next]_vars

\* -------------------------------------------- streaming writes, any names
\* Two concurrent table writes of the streaming writer, with a batch size of
\* at least 1, whose table names are different or the same.
InitNames ==
    /\ InitCommon
    /\ InitValues
    /\ batch >= 1
    /\ tname \in {f \in [Calls -> Names] : f[1] = "t1"}
    /\ srcCloses = [c \in Calls |-> TRUE]

SpecNames == InitNames /\ [][Next]_vars

\* ------------------------------------------------------ one table write
\* One DumpTable call on the session.  Its source yields up to MaxRows + 1
\* rows and then closes its channel or leaves it open; one of the rows may
\* hold a value of a type the switch does not name.
InitOneCommon ==
    /\ batch \in 0..(MaxBatch + 1)
    /\ nRows \in {f \in [Calls -> 0..(MaxRows + 1)] : f[2] = 0}
    /\ unhandled \in {f \in [Calls -> 0..(MaxRows + 1)] :
                         f[1] <= nRows[1] /\ f[2] = 0}
    /\ srcCloses \in {f \in [Calls -> BOOLEAN] : f[2]}
    /\ tname = [c \in Calls |-> IF c = 1 THEN "t1" ELSE "t2"]
    /\ nextRow = [c \in Calls |-> 1]
    /\ once = "idle"
    /\ disableGlobalInline = FALSE
    /\ localInfile \in BOOLEAN
    /\ toggle = [reads |-> 0, sets |-> 0, resets |-> 0, foundDisabled |-> FALSE,
                 enabled |-> FALSE, failed |-> FALSE]
    /\ err = [c \in Calls |-> Nil]
    /\ inserted = [c \in Calls |-> 0]
    /\ reg = [n \in Names |-> None]
    /\ bound = [c \in Calls |-> None]
    /\ conn = "open"
    /\ cpc = [i \in Closers |-> "idle"]
    /\ closeErr = [i \in Closers |-> [msg |-> "none", wraps |-> {}]]
    /\ closeLog = [i \in Closers |-> NoCloseLog]
    /\ crashed = FALSE
    /\ field = [kind |-> "nil", data |-> <<>>]
    /\ outStream = NotRun
    /\ outReplace = NotRun

InitOne ==
    /\ InitOneCommon
    /\ pc = [c \in Calls |-> "start"]
    /\ txns = [c \in Calls |-> <<>>]

OneProducerStep(k) == ProducerStep(1, k) \/ ProdPanic(1, k)

NextOne ==
    \/ CallStep(1)
    \/ \E k \in 1..MaxTxns : OneProducerStep(k)

SpecOne == InitOne /\ [][NextOne]_vars

\* The goroutine of the call and the producer goroutines are scheduled
\* whenever they can run, and every database operation completes: the steps
\* of the call other than the abort of a running statement are taken when
\* they stay possible.
CallProgress ==
    \/ OnceEnter(1) \/ OnceRead(1) \/ OnceSet(1) \/ OnceRecord(1)
    \/ AfterOnce(1)
    \/ LoopTest(1) \/ Panic(1)
    \/ Begin(1) \/ Rollback(1) \/ Commit(1)
    \/ GetColumns(1) \/ Register(1) \/ FkExec(1)
    \/ ExecSend(1) \/ ExecRead(1) \/ ExecEof(1) \/ ExecDone(1)

SpecOneFair ==
    /\ SpecOne
    /\ WF_vars(CallProgress)
    /\ \A k \in 1..MaxTxns : WF_vars(OneProducerStep(k))

\* ------------------------------------------------------ the two writers
\* Either DumpTable is called, or insertIntoTableReplace is called directly
\* with an open transaction.
InitWriters ==
    /\ InitOneCommon
    /\ \/ /\ pc = [c \in Calls |-> "start"]
          /\ txns = [c \in Calls |-> <<>>]
       \/ /\ pc = [c \in Calls |-> IF c = 1 THEN "rcolumns" ELSE "start"]
          /\ txns = [c \in Calls |-> IF c = 1 THEN <<NewTxn>> ELSE <<>>]

NextWriters == NextOne \/ ReplaceStep(1)

SpecWriters == InitWriters /\ [][NextWriters]_vars

\* ------------------------------------------------- table writes and Close
\* One DumpTable call, and Close calls made at any time: before, while and
\* after the DumpTable call runs.
InitClose ==
    /\ Init
    /\ nRows[2] = 0

NextClose ==
    \/ CallStep(1)
    \/ \E k \in 1..MaxTxns : ProducerStep(1, k)
    \/ \E i \in Closers : CloseStep(i)

SpecClose == InitClose /\ [][NextClose]_vars

\* ------------------------------------------------------- value encoding
\* One field value is handed to the switch of each writer.
InitEncode ==
    /\ InitCommon
    /\ batch = 1
    /\ nRows = [c \in Calls |-> 0]
    /\ ~localInfile
    /\ tname = [c \in Calls |-> IF c = 1 THEN "t1" ELSE "t2"]
    /\ srcCloses = [c \in Calls |-> TRUE]
    /\ unhandled = [c \in Calls |-> 0]
    /\ field \in FieldValues
    /\ outStream = NotRun
    /\ outReplace = NotRun

\* lines 232-242 applied to the field
EncodeStreamStep ==
    /\ outStream = NotRun
    /\ outStream' = EncodeStream(field)
    /\ UNCHANGED <<config, nextRow, sessionVars, pc, err, inserted, txns, reg,
                   bound, closeVars, crashed, field, outReplace>>

\* lines 300-310 applied to the field
EncodeReplaceStep ==
    /\ outReplace = NotRun
    /\ outReplace' = EncodeReplace(field)
    /\ UNCHANGED <<config, nextRow, sessionVars, pc, err, inserted, txns, reg,
                   bound, closeVars, crashed, field, outStream>>

NextEncode == EncodeStreamStep \/ EncodeReplaceStep

SpecEncode == InitEncode /\ [][NextEncode]_vars

\* ================================================================ claims
Ceil(r, b) == (r + b - 1) \div b

\* DumpTable returned nil: the loop ended and no step of the call failed
ReturnedNil(c) == pc[c] = "returned" /\ err[c] = Nil

CommittedTxns(c) == SelectSeq(txns[c], LAMBDA t : t.st = "committed")

\* rows-written counts reported by the committed batches of call c
RECURSIVE ReportedSum(_)
ReportedSum(ts) ==
    IF ts = <<>> THEN 0 ELSE Head(ts).reported + ReportedSum(Tail(ts))

\* the statement inputs of the batches of call c, one after the other
RECURSIVE AllInput(_)
AllInput(ts) == IF ts = <<>> THEN <<>> ELSE Head(ts).input \o AllInput(Tail(ts))

\* a step of a batch of call c has failed
BatchFailed(c) ==
    \/ err[c] \in {"begin", "columns", "fk", "stmt", "commit"}
    \/ \E k \in 1..Len(txns[c]) :
          txns[c][k].failedAt # "none" \/ txns[c][k].st = "commitfailed"

\* C1: with batch size B >= 1 and a source that closes after R rows, a
\* DumpTable call in which nothing failed has committed every transaction it
\* began; every batch but the last wrote exactly B rows and the last wrote
\* fewer; their number is ceil(R/B) when R is no multiple of B and R/B + 1
\* when it is, the extra, last one having written no row.
C1_TransactionCount ==
    \A c \in Calls :
        (ReturnedNil(c) /\ batch >= 1) =>
            LET n == Len(txns[c])
                R == nRows[c]
            IN /\ \A k \in 1..n : txns[c][k].st = "committed"
               /\ n = IF R % batch = 0 THEN R \div batch + 1 ELSE Ceil(R, batch)
               /\ \A k \in 1..(n - 1) : txns[c][k].reported = batch
               /\ txns[c][n].reported < batch
               /\ (R % batch = 0) =>
                     txns[c][n].reported = 0 /\ txns[c][n].input = <<>>

C1_Witness ==
    \E c \in Calls :
        /\ ReturnedNil(c) /\ batch = 2 /\ nRows[c] = 2
        /\ Len(txns[c]) = 2 /\ txns[c][1].reported = 2 /\ txns[c][2].reported = 0

\* C2: when the source yields R rows and closes and nothing fails, the
\* rows-written counts of the committed batches of a table write add up to R
\* and every row of the source is in exactly one batch's statement input.
C2_AllRowsWrittenOnce ==
    \A c \in Calls :
        ReturnedNil(c) =>
            /\ ReportedSum(CommittedTxns(c)) = nRows[c]
            /\ AllInput(txns[c]) = [i \in 1..nRows[c] |-> i]

\* The same for batch sizes of at least 1.
C2_PositiveBatch ==
    \A c \in Calls :
        (ReturnedNil(c) /\ batch >= 1) =>
            /\ ReportedSum(CommittedTxns(c)) = nRows[c]
            /\ AllInput(txns[c]) = [i \in 1..nRows[c] |-> i]

\* The replace writer, which no table write calls: a call that returns a count
\* has put every row it took, once and in order, into its one statement and
\* returns their number.
C2_ReplaceBatch ==
    (pc[1] = "rreturned" /\ CurTxn(1).failedAt = "none") =>
        /\ CurTxn(1).reported = Len(CurTxn(1).taken)
        /\ CurTxn(1).taken # <<>> => CurTxn(1).input = CurTxn(1).taken

\* C3: for every configured batch size, no batch's writer (the streaming one
\* or the replace one) has taken more rows from the row channel than the
\* configured maximum.
C3_BatchWithinCap ==
    \A c \in Calls : \A k \in 1..Len(txns[c]) : Len(txns[c][k].taken) <= batch

\* The same for batch sizes of at least 1.
C3_PositiveBatch ==
    batch >= 1 =>
        \A c \in Calls : \A k \in 1..Len(txns[c]) : Len(txns[c][k].taken) <= batch

\* C4: within one table write every transaction that was begun is ended by
\* exactly one Commit or one Rollback before trunkInsert returns, hence before
\* the next one is begun: at most one is open at any time, and each has one
\* outcome for all of its rows.
C4_OneTxnPerBatch ==
    \A c \in Calls :
        /\ Cardinality({k \in 1..Len(txns[c]) : txns[c][k].st = "open"}) <= 1
        /\ \A k \in 1..Len(txns[c]) :
              /\ txns[c][k].ends <= 1
              /\ txns[c][k].st = "open" <=> txns[c][k].ends = 0
              /\ k < Len(txns[c]) => txns[c][k].ends = 1
        /\ pc[c] \in {"loop", "begin", "returned", "panic", "panicked"} =>
              \A k \in 1..Len(txns[c]) : txns[c][k].ends = 1

C4_Witness ==
    \E c \in Calls :
        /\ Len(txns[c]) = 2 /\ pc[c] = "panic"
        /\ txns[c][1].st = "committed" /\ txns[c][1].input # <<>>
        /\ txns[c][2].st = "rolledback"

\* C5: when the foreign-key preamble or the bulk / replace statement of a
\* batch fails, the batch's transaction is never committed, a rollback has
\* been issued on it once trunkInsert has returned, and the batches before it
\* are committed.
C5_FailedBatchRolledBack ==
    \A c \in Calls : \A k \in 1..Len(txns[c]) :
        txns[c][k].failedAt \in {"fk", "stmt"} =>
            /\ txns[c][k].st \in {"open", "rolledback", "rollbackfailed"}
            /\ pc[c] \in {"panic", "panicked", "loop", "begin", "returned"} =>
                  txns[c][k].st # "open" /\ txns[c][k].ends = 1
            /\ \A j \in 1..(k - 1) : txns[c][j].st = "committed"

C5_Witness ==
    \E c \in Calls :
        /\ Len(txns[c]) = 2 /\ pc[c] = "panic"
        /\ txns[c][2].failedAt = "stmt" /\ txns[c][2].input # <<>>
        /\ txns[c][2].st = "rolledback"
        /\ txns[c][1].st = "committed" /\ txns[c][1].input # <<>>

\* C6: once a step of a batch has failed (begin, column lookup, statement
\* execution or commit), the table write begins no further transaction and
\* does not go back to attempt one.
C6_NoRetryAfterFailure ==
    [][\A c \in Calls :
          BatchFailed(c) => /\ Len(txns'[c]) = Len(txns[c])
                            /\ pc'[c] # "begin"]_vars

C6_Witness ==
    \E c \in Calls :
        /\ BatchFailed(c) /\ pc[c] = "panicked"
        /\ nextRow[c] <= nRows[c]
        /\ Len(txns[c]) >= 1

\* C7: a failure inside the batch loop is returned by DumpTable as an error
\* and does not terminate the process.
C7_LoopErrorReturned ==
    \A c \in Calls : BatchFailed(c) => (pc[c] # "panicked" /\ ~crashed)

\* C8: when the evaluation of the global mode failed, no DumpTable call of
\* the session goes on to its batch loop or opens a transaction.
C8_ToggleFailureBlocksWrites ==
    toggle.failed =>
        \A c \in Calls :
            /\ txns[c] = <<>>
            /\ pc[c] \in {"start", "onceRead", "onceSet", "onceRecord", "afterOnce",
                        "returned"}

\* C9: over any interleaving of DumpTable calls the setting is read at most
\* once and enabled at most once, by one call, and no call is past the
\* sync.Once (so none has begun a transaction) before the evaluation is done.
C9_ToggleEvaluatedOnce ==
    /\ toggle.reads <= 1
    /\ toggle.sets <= 1
    /\ Cardinality({c \in Calls :
                       pc[c] \in {"onceRead", "onceSet", "onceRecord"}}) <= 1
    /\ \A c \in Calls :
          (pc[c] \notin {"start", "onceRead", "onceSet", "onceRecord"}
             \/ txns[c] # <<>>) =>
              once = "done"

C9_Witness ==
    /\ toggle.reads = 1 /\ toggle.sets = 1
    /\ \A c \in Calls : txns[c] # <<>>

\* C10: a Close call issues SET GLOBAL local_infile=0 exactly when the
\* session had before found the setting disabled and enabled it
\* successfully; the session has enabled it only after it read it as
\* disabled, and nothing but Close issues the reset.
C10_CloseRestoresOwnChange ==
    /\ \A i \in Closers :
          cpc[i] # "idle" => (closeLog[i].reset <=> closeLog[i].enabledBefore)
    /\ toggle.enabled => (toggle.foundDisabled /\ toggle.sets = 1)
    /\ toggle.resets = Cardinality({i \in Closers : closeLog[i].reset})

\* What Close does guarantee.  It issues the reset only when the session had
\* enabled the setting, and a Close call that tests d.disableGlobalInline
\* while no evaluation of the setting is running issues it exactly then.
C10_ResetOnlyOwnChange ==
    /\ \A i \in Closers :
          cpc[i] # "idle" =>
              /\ closeLog[i].reset => closeLog[i].enabledBefore
              /\ ~closeLog[i].duringOnce =>
                     (closeLog[i].reset <=> closeLog[i].enabledBefore)
    /\ toggle.enabled => (toggle.foundDisabled /\ toggle.sets = 1)
    /\ toggle.resets = Cardinality({i \in Closers : closeLog[i].reset})

\* A Close call made after a DumpTable call returned restores the setting.
C10_Restored ==
    /\ cpc[1] = "done" /\ closeLog[1].reset /\ toggle.enabled
    /\ \E c \in Calls : pc[c] = "returned" /\ txns[c] # <<>>

\* A Close call made before the session enabled the setting leaves it alone.
C10_ClosedBeforeEnable ==
    /\ cpc[1] = "done" /\ ~closeLog[1].reset /\ ~closeLog[1].enabledBefore
    /\ toggle.enabled

\* A Close call that runs between lines 121 and 124 of a DumpTable call
\* leaves the setting the session enabled as it is.
C10_NotRestored ==
    /\ cpc[1] = "done" /\ ~closeLog[1].reset /\ closeLog[1].enabledBefore
    /\ localInfile

\* C11: Close always attempts the connection close, and its result tells the
\* four outcomes apart: nil, the restore error alone, the close error alone,
\* and, when both steps failed, one error that carries both failures.
C11_CloseCarriesBothErrors ==
    \A i \in Closers :
        cpc[i] = "done" =>
            /\ conn = "closed"
            /\ closeErr[i].msg = Nil <=>
                   (~closeLog[i].setFailed /\ ~closeLog[i].closeFailed)
            /\ closeErr[i].wraps = {e \in {ErrInline, ErrClose} :
                                       \/ e = ErrInline /\ closeLog[i].setFailed
                                       \/ e = ErrClose /\ closeLog[i].closeFailed}

\* What Close does guarantee: the connection close is attempted whatever the
\* restore did, and the four outcomes have four different messages.
C11_FourMessages ==
    \A i \in Closers :
        cpc[i] = "done" =>
            /\ conn = "closed"
            /\ closeErr[i].msg =
                  IF closeLog[i].closeFailed
                  THEN IF closeLog[i].setFailed THEN "close and inline"
                       ELSE "close"
                  ELSE IF closeLog[i].setFailed THEN "inline" ELSE Nil

\* positions of insertIntoTable between RegisterReaderHandler and its return
HandlerPcs == {"fk", "exec", "reading", "answer"}

\* C12: the streaming writer has its handler registered under the table name
\* from before the bulk statement is sent until insertIntoTable returns, and
\* whenever the call is anywhere else (it returned with a count or an error,
\* it failed at the column lookup, it has not started) no handler of the call
\* is registered.
C12_HandlerScoped ==
    \A c \in Calls :
        /\ pc[c] \in HandlerPcs => reg[tname[c]] = <<c, Cur(c)>>
        /\ pc[c] \notin HandlerPcs => \A n \in Names : reg[n][1] # c

C12_Witness ==
    \E c \in Calls :
        /\ pc[c] = "rollback" /\ CurTxn(c).failedAt = "stmt"
        /\ CurTxn(c).input # <<>>
        /\ reg[tname[c]] = None

\* insertIntoTableReplace, called directly, is past its receive loop
PastReceive(c) == pc[c] \in {"rfk", "rexec", "rreturned"}

\* C14: when the buffered replace writer leaves its receive loop without a
\* row (the channel was closed before it delivered one) it returns 0 and no
\* error and has sent nothing on the transaction: neither the foreign-key
\* preamble nor a replace statement.
C14_ReplaceEmptyBatch ==
    \A c \in Calls :
        (PastReceive(c) /\ CurTxn(c).taken = <<>>
            /\ CurTxn(c).failedAt # "columns") =>
           LET t == CurTxn(c)
           IN /\ pc[c] = "rreturned"
              /\ t.reported = 0
              /\ t.failedAt = "none"
              /\ ~t.fk /\ ~t.stmt

C14_Witness ==
    /\ pc[1] = "rreturned"
    /\ nRows[1] = 0 /\ srcCloses[1]
    /\ CurTxn(1).taken = <<>> /\ CurTxn(1).reported = 0
    /\ ~CurTxn(1).fk /\ ~CurTxn(1).stmt

\* C16: a batch whose bulk or replace statement was sent has had its
\* SET foreign_key_checks = 0 succeed before; a batch whose preamble failed
\* never sends its statement and returns an error, not a count.
C16_PreambleBeforeStatement ==
    \A c \in Calls : \A k \in 1..Len(txns[c]) :
        LET t == txns[c][k]
        IN /\ t.stmt => t.fk
           /\ t.failedAt = "fk" => (~t.stmt /\ ~t.fk /\ t.reported = -1
                                     /\ t.st # "committed")

C16_Witness ==
    \E c \in Calls :
        /\ Len(txns[c]) = 2
        /\ txns[c][1].stmt /\ txns[c][1].fk /\ txns[c][1].st = "committed"
        /\ txns[c][2].failedAt = "fk" /\ txns[c][2].st = "rolledback"

C16_ReplaceWitness ==
    /\ pc[1] = "rreturned"
    /\ CurTxn(1).stmt /\ CurTxn(1).fk /\ CurTxn(1).reported >= 1

C16_ReplacePreambleFailed ==
    /\ pc[1] = "rreturned"
    /\ CurTxn(1).failedAt = "fk" /\ ~CurTxn(1).stmt /\ CurTxn(1).taken # <<>>

\* the pipe insertIntoTable created for the current batch of call c
OwnPipe(c) == <<c, Cur(c)>>

\* C13: when the concurrently active table writes have distinct table names,
\* every bulk statement reads the pipe of its own batch and its handler stays
\* registered from the registration to the return of insertIntoTable.  (With
\* equal names the writes collide: C13_Witness is reachable.)
C13_DistinctNamesNoCollision ==
    (\A c, d \in Calls : c # d => tname[c] # tname[d]) =>
        \A c \in Calls :
            /\ pc[c] \in {"reading", "answer"} => bound[c] = OwnPipe(c)
            /\ pc[c] \in HandlerPcs => reg[tname[c]] = OwnPipe(c)

\* Two table writes of the same name: a statement is bound to the pipe of
\* the other write, or is about to run with its handler overwritten or
\* deregistered by the other write.
C13_Witness ==
    /\ tname[1] = tname[2]
    /\ \E c \in Calls :
          \/ pc[c] = "reading" /\ bound[c][1] # c
          \/ pc[c] = "exec" /\ reg[tname[c]] # OwnPipe(c)

\* Two statements bound to the same pipe have both read its end of stream
\* and wait for the server's answer: both can succeed.
C13_BothReadEndOfStream ==
    /\ pc[1] = "answer" /\ pc[2] = "answer" /\ bound[1] = bound[2]
    /\ CurTxn(1).failedAt = "none" /\ CurTxn(2).failedAt = "none"

\* the three collisions, one by one
C13_BoundToOtherPipe ==
    tname[1] = tname[2] /\ \E c \in Calls : pc[c] = "reading" /\ bound[c][1] # c
C13_HandlerOverwritten ==
    tname[1] = tname[2] /\ \E c \in Calls :
        pc[c] = "exec" /\ reg[tname[c]] \notin {OwnPipe(c), None}
C13_HandlerDeregistered ==
    tname[1] = tname[2] /\ \E c \in Calls : pc[c] = "exec" /\ reg[tname[c]] = None

\* C15: for every field value the streaming writer and the replace writer
\* produce the same text: NULL for nil, the text itself for a string, the
\* bytes as text for a []uint8, and for a value of any other type a forced
\* string conversion, which panics because such a value is not a string.
C15_SameEncoding ==
    /\ (outStream # NotRun /\ outReplace # NotRun) => outStream = outReplace
    /\ \A out \in {outStream, outReplace} :
          out # NotRun =>
             /\ field.kind = "nil" => out = Null
             /\ field.kind = "string" => out = field.data
             /\ field.kind = "bytes" =>
                   /\ Len(out) = Len(field.data)
                   /\ \A i \in 1..Len(out) : out[i] = field.data[i]
             /\ field.kind \in OtherKinds => out = Panics

C15_Witness ==
    /\ field.kind = "nil"
    /\ outStream = Null
    /\ outReplace = Null

C15_OtherTypePanics ==
    /\ field.kind \in OtherKinds
    /\ outStream = Panics
    /\ outReplace = Panics

\* Records the producer of a batch has received and encoded and the
\* consumer has not read: those in the csv.Writer's buffer, those in the
\* pipe write in progress, and the one whose w.Write is blocked.
InFlight(t) == Len(t.buf) + Len(t.pipe) + (IF t.pend # 0 THEN 1 ELSE 0)

\* C17 as stated: at any time at most one record is taken and encoded by the
\* producer and not yet read by the consumer.
C17_OneInFlight ==
    \A c \in Calls : \A k \in 1..Len(txns[c]) : InFlight(txns[c][k]) <= 1

\* C17: the pipe blocks the producer until the consumer reads; the records
\* taken and encoded and not yet read are at most those that fit in the
\* csv.Writer's buffer plus the one whose write is blocked, and while a
\* write to the pipe is unread the producer receives no row.
C17_InFlightBounded ==
    \A c \in Calls : \A k \in 1..Len(txns[c]) :
        LET t == txns[c][k]
        IN /\ InFlight(t) <= CsvBufCap + 1
           /\ t.pipe # <<>> => t.prod \in {"flush", "close"}

C17_Witness ==
    \E k \in 1..Len(txns[1]) :
        /\ InFlight(txns[1][k]) = CsvBufCap + 1
        /\ txns[1][k].prod = "flush"
        /\ txns[1][k].pipe # <<>>

\* C18: the producer closes its end of the pipe when it completes and when an
\* error occurs inside it: after an error of w.Write it receives no further
\* row, and after the panic of a field's conversion, with the pipe closed,
\* the process keeps running.
C18_ProducerErrorEndsStream ==
    \A c \in Calls : \A k \in 1..Len(txns[c]) :
        LET t == txns[c][k]
        IN /\ t.werr => t.prod \in {"final", "close", "done"}
           /\ (t.panic /\ t.wclosed) => ~crashed

\* The part of C18 about completion: a producer that has left its loop and
\* run its deferred calls has closed the pipe, and the statement of a batch
\* succeeds only after the consumer saw that end of the stream.
C18_CompletionClosesPipe ==
    \A c \in Calls : \A k \in 1..Len(txns[c]) :
        LET t == txns[c][k]
        IN /\ t.prod \in {"done", "dying", "panicked"} <=> t.wclosed
           /\ t.reported >= 0 => t.wclosed

\* After a failed w.Write the producer went on and received another row.
C18_ReceivesAfterWriteError ==
    \E k \in 1..Len(txns[1]) :
        LET t == txns[1][k]
        IN t.werr /\ t.prod = "recv" /\ t.cnt >= 2

\* The conversion of a field panicked, the pipe was closed by the deferred
\* call, and the process terminated.
C18_ProcessTerminated ==
    \E k \in 1..Len(txns[1]) :
        txns[1][k].panic /\ txns[1][k].wclosed /\ crashed

\* insertIntoTable has returned for batch k of call c
StreamReturned(c, k) ==
    /\ k < Cur(c) \/ pc[c] \notin {"columns", "register", "fk", "exec", "reading", "answer"}

\* the producer goroutine of batch t is over or was never started
ProducerOver(t) == t.prod \in {"none", "done", "dying", "panicked"}

\* C19: whenever insertIntoTable has returned, with a count or with an error,
\* the producer goroutine it started has terminated, and the count of a
\* successful return is the number of rows that producer received.
C19_ProducerOverAtReturn ==
    \A c \in Calls : \A k \in 1..Len(txns[c]) :
        StreamReturned(c, k) =>
            /\ ProducerOver(txns[c][k])
            /\ txns[c][k].reported >= 0 =>
                  txns[c][k].reported = Len(txns[c][k].taken)

\* The part of C19 about a successful return: the producer is over and the
\* count is the number of rows it counted.
C19_ProducerOverAtSuccess ==
    \A c \in Calls : \A k \in 1..Len(txns[c]) :
        (StreamReturned(c, k) /\ txns[c][k].reported >= 0) =>
            /\ ProducerOver(txns[c][k])
            /\ txns[c][k].reported = txns[c][k].cnt

\* insertIntoTable returned an error and its producer then received a row.
C19_ReceivesAfterReturn ==
    \E k \in 1..Len(txns[1]) :
        LET t == txns[1][k]
        IN /\ StreamReturned(1, k)
           /\ t.failedAt = "fk"
           /\ t.prod = "recv"
           /\ t.taken # <<>>

\* insertIntoTable returned an error and its producer is blocked on the
\* pipe, which nothing reads any more.
C19_BlockedAfterReturn ==
    \E k \in 1..Len(txns[1]) :
        LET t == txns[1][k]
        IN /\ StreamReturned(1, k)
           /\ t.failedAt = "fk"
           /\ t.prod \in {"flush", "close"}
           /\ t.pipe # <<>>
           /\ ~t.rclosed

\* the DumpTable call is over: it returned, or the process was terminated
Terminated(c) == pc[c] \in {"returned", "panicked"} \/ crashed

\* The channel stays open and holds fewer rows, all of handled types, than
\* the open batch of the call still needs to reach the batch size.
Starved(c) ==
    /\ ~srcCloses[c]
    /\ unhandled[c] = 0
    /\ batch >= 1
    /\ Cur(c) >= 1
    /\ CurTxn(c).st = "open"
    /\ CurTxn(c).reported < 0
    /\ nRows[c] - nextRow[c] + 1 < batch - Len(CurTxn(c).taken)

\* C20: when the source closes its channel and the batch size is at least 1,
\* a DumpTable call that was made eventually terminates; once the open channel holds fewer rows
\* than the current batch still needs, that batch is never committed and
\* DumpTable never returns: it only ends if a database operation fails.
C20_TerminatesOrBlocks ==
    /\ (pc[1] # "start" /\ srcCloses[1] /\ batch >= 1) ~> Terminated(1)
    /\ [](Starved(1) =>
            [](/\ Cur(1) >= 1 => CurTxn(1).st # "committed"
               /\ pc[1] # "returned"
               /\ pc[1] = "panicked" => BatchFailed(1)))

C20_Witness ==
    /\ Starved(1)
    /\ pc[1] = "reading"
    /\ CurTxn(1).prod = "recv"
    /\ CurTxn(1).taken # <<>>
    /\ ~ChanHasRow(1)

C20_Terminated ==
    /\ srcCloses[1] /\ batch >= 2 /\ nRows[1] > batch
    /\ ReturnedNil(1)

====
